---- MODULE Spec2Model ----
(***************************************************************************)
(* A model of textgrid_explorer: the encoding detector and the directory   *)
(* scans of utils.py, and the change tracking of explorer_window.py.       *)
(***************************************************************************)
EXTENDS Integers, Sequences, FiniteSets, TLC

VARIABLES
    \* ---- utils.detect_praat_encoding -----------------------------------
    fbytes,          \* the bytes of the file at `path`
    header,          \* f.readline()
    encoding,        \* the returned tag
    dpc,             \* position inside detect_praat_encoding
    \* ---- utils.get_tier_names / create_aligned_tier_table -------------
    fn,              \* which of the two scans is running
    source_dir,      \* [is_dir, is_absolute] of Path(source_dir)
    primary_tier_name,
    secondary_tier_names,
    nread,           \* how many paths source_dir.rglob has yielded
    tg_loaded,       \* whether read_textgrid returned a TextGrid for the last path
    aligned_data,    \* the dict, as a sequence of [key, row] in insertion order
    names,           \* the list get_tier_names builds
    result,          \* what the scan returned: [headers, table_rows] or [names]
    apc,             \* position inside the scan
    seen_keys,       \* history: spans of the non-blank primary intervals read
    skipped_blank,   \* history: a blank primary interval was read
    joinable,        \* history: the secondary intervals of the last file read
                     \* whose span was a key of aligned_data
    last_keys,       \* history: spans of the non-blank primary intervals of the
                     \* last file read
    ref_data,        \* history: the dict of a scan that runs the primary and the
                     \* secondary pass once for each file
    seen_names,      \* history: the tier names of the files that loaded
    \* ---- explorer_window: EditorView and TGExplorer -------------------
    table,           \* the interval cells of the table model: for each cell the
                     \* TextGrid that owns its interval and the interval's modified flag
    modified_indexes,\* EditorView._modified_indexes
    save_enabled,    \* save_changes_act.isEnabled()
    buttons_enabled, \* the actions on_enabled_buttons switches, close_project_act among them
    last_op,         \* history: the handler that ran last
    last_pass        \* history: the last run of on_save_changes

gvars == <<table, modified_indexes, save_enabled, buttons_enabled, last_op, last_pass>>
dvars == <<fbytes, header, encoding, dpc>>
avars == <<fn, source_dir, primary_tier_name, secondary_tier_names, nread,
           tg_loaded, aligned_data, names, result, apc, seen_keys, skipped_blank, joinable,
           last_keys, ref_data, seen_names>>

vars == <<dvars, avars, gvars>>

(***************************************************************************)
(* Bounds                                                                  *)
(***************************************************************************)
MaxLen == 4              \* longest file, in bytes

\* The byte values files are made of: LF, 'A', a continuation byte, a
\* two-byte lead, and the two bytes of the UTF-16 byte order marks.
ByteValues == {10, 65, 128, 195, 254, 255}

RECURSIVE SeqsUpTo(_, _)
SeqsUpTo(S, n) ==
    IF n = 0 THEN {<<>>}
    ELSE LET shorter == SeqsUpTo(S, n - 1)
         IN  shorter \cup {Append(s, x) : s \in {t \in shorter : Len(t) = n - 1}, x \in S}

Files == SeqsUpTo(ByteValues, MaxLen)

\* The variables of the scans while no scan runs.
AlignIdle ==
    /\ fn = "none"
    /\ source_dir = [is_dir |-> FALSE, is_absolute |-> FALSE]
    /\ primary_tier_name = ""
    /\ secondary_tier_names = <<>>
    /\ nread = 0
    /\ tg_loaded = FALSE
    /\ aligned_data = <<>>
    /\ names = <<>>
    /\ result = [returned |-> FALSE]
    /\ apc = "idle"
    /\ seen_keys = {}
    /\ skipped_blank = FALSE
    /\ joinable = {}
    /\ last_keys = {}
    /\ ref_data = <<>>
    /\ seen_names = {}

NoPass == [ran |-> FALSE]

\* The variables of the window as TGExplorer.__init__ leaves them.
GuiIdle ==
    /\ table = <<>>
    /\ modified_indexes = {}
    /\ save_enabled = FALSE
    /\ buttons_enabled = FALSE
    /\ last_op = "init"
    /\ last_pass = NoPass

(***************************************************************************)
(* utils.py: detect_praat_encoding, _is_valid_utf8                         *)
(***************************************************************************)

\* bytes.startswith(prefix)
StartsWith(b, prefix) ==
    /\ Len(b) >= Len(prefix)
    /\ \A i \in 1..Len(prefix) : b[i] = prefix[i]

\* The length of the line f.readline() returns from `b`: up to and including
\* the first LF, or all of `b` when it holds none.
LineLen(b) ==
    IF \E i \in 1..Len(b) : b[i] = 10
    THEN CHOOSE i \in 1..Len(b) : b[i] = 10 /\ \A j \in 1..(i - 1) : b[j] # 10
    ELSE Len(b)

ReadLine(b) == SubSeq(b, 1, LineLen(b))

\* f.read() after the readline: the rest of the file.
ReadRest(b) == SubSeq(b, LineLen(b) + 1, Len(b))

IsCont(x) == x >= 128 /\ x <= 191

\* bytes.decode('utf-8') succeeds (strict: no overlong forms, no
\* surrogates, nothing above U+10FFFF).
RECURSIVE DecodesAsUtf8(_, _)
DecodesAsUtf8(b, i) ==
    IF i > Len(b) THEN TRUE
    ELSE LET x == b[i]
             has(k) == i + k <= Len(b) /\ \A j \in 1..k : IsCont(b[i + j])
         IN  IF x <= 127 THEN DecodesAsUtf8(b, i + 1)
             ELSE IF x >= 194 /\ x <= 223
                  THEN has(1) /\ DecodesAsUtf8(b, i + 2)
             ELSE IF x >= 224 /\ x <= 239
                  THEN /\ has(2)
                       /\ (x = 224 => b[i + 1] >= 160)
                       /\ (x = 237 => b[i + 1] <= 159)
                       /\ DecodesAsUtf8(b, i + 3)
             ELSE IF x >= 240 /\ x <= 244
                  THEN /\ has(3)
                       /\ (x = 240 => b[i + 1] >= 144)
                       /\ (x = 244 => b[i + 1] <= 143)
                       /\ DecodesAsUtf8(b, i + 4)
             ELSE FALSE

is_valid_utf8(byte_sequence) == DecodesAsUtf8(byte_sequence, 1)

BomLE == <<255, 254>>
BomBE == <<254, 255>>

ClassifySwapped(h, rest) ==
    IF StartsWith(h, BomBE) THEN "utf-16le"
    ELSE IF StartsWith(h, BomLE) THEN "utf-16be"
    ELSE IF is_valid_utf8(rest) THEN "utf-8" ELSE "latin_1"

\* The if/elif/else of detect_praat_encoding on the header line and the
\* bytes after it.
Classify(h, rest) ==
    IF StartsWith(h, BomLE) THEN "utf-16le"
    ELSE IF StartsWith(h, BomBE) THEN "utf-16be"
    ELSE IF is_valid_utf8(rest) THEN "utf-8" ELSE "latin_1"

DetectInit ==
    /\ AlignIdle
    /\ GuiIdle
    /\ fbytes \in Files
    /\ header = <<>>
    /\ encoding = "none"
    /\ dpc = "open"

\* with open(path, 'rb') as f: header = f.readline()
DetectReadHeader ==
    /\ dpc = "open"
    /\ header' = ReadLine(fbytes)
    /\ dpc' = "header"
    /\ UNCHANGED <<fbytes, encoding, avars, gvars>>

\* the BOM tests, and f.read() and the UTF-8 test when there is no BOM
DetectClassify ==
    /\ dpc = "header"
    /\ encoding' = Classify(header, ReadRest(fbytes))
    /\ dpc' = "done"
    /\ UNCHANGED <<fbytes, header, avars, gvars>>

DetectNext == DetectReadHeader \/ DetectClassify

SpecDetect == DetectInit /\ [][DetectNext]_vars

(***************************************************************************)
(* The files of a directory: what mytextgrid.read_from_file parses         *)
(***************************************************************************)
MaxFiles == 2            \* most files source_dir.rglob yields

\* Time stamps. Floats are compared exactly by the code, so distinct
\* numbers stand for floats that differ in any amount.
Times == {0, 1, 2}
Spans == {sp \in Times \X Times : sp[1] < sp[2]}

\* Labels, as sequences of characters: whitespace only, and a word.
Texts == {<<" ">>, <<"o", "k">>}
TierNames == {"word", "phone"}

\* The labels of a tier. The scans read the text of the tiers named as the
\* primary tier only, so one label stands for all in the other tiers.
TextsOf(name) == IF name = "word" THEN Texts ELSE {<<"k">>}

ParsedIntervals(texts) ==
    {[xmin |-> sp[1], xmax |-> sp[2], text |-> t] : sp \in Spans, t \in texts}

\* The intervals of a tier are in time order and do not overlap.
TimeOrdered(items) ==
    \A i \in 1..(Len(items) - 1) : items[i].xmax <= items[i + 1].xmin

TierItems(texts) ==
    {it \in SeqsUpTo(ParsedIntervals(texts), Cardinality(Times) - 1) : TimeOrdered(it)}

ParsedTiers ==
    UNION {{[name |-> n, items |-> it] : it \in TierItems(TextsOf(n))} : n \in TierNames}

\* A file holds at most as many tiers as there are tier names; two of its
\* tiers may carry the same name.
ParsedDocs == SeqsUpTo(ParsedTiers, Cardinality(TierNames))

\* What happens inside the try block of read_textgrid for one path: an
\* exception (unreadable or malformed file), or a parsed TextGrid.
LoadOutcomes == {[ok |-> FALSE]} \cup {[ok |-> TRUE, doc |-> d] : d \in ParsedDocs}

\* The tier selections of a call: the primary tier is "word".
Selections ==
    {<<>>, <<"phone">>, <<"phone", "gloss">>, <<"word", "phone">>, <<"phone", "phone">>}

(***************************************************************************)
(* utils.py: read_textgrid                                                 *)
(***************************************************************************)
NoTextgrid == [loaded |-> FALSE]

\* The provenance read_textgrid attaches: tier.index, and on every item its
\* file, its tier and modified = False.
Attach(path, doc) ==
    [loaded |-> TRUE,
     file_path |-> path,
     tiers |-> [i \in 1..Len(doc) |->
        [name |-> doc[i].name,
         index |-> i - 1,
         items |-> [j \in 1..Len(doc[i].items) |->
            [kind |-> "interval",
             file_path |-> path,
             tier |-> [index |-> i - 1, name |-> doc[i].name],
             xmin |-> doc[i].items[j].xmin,
             xmax |-> doc[i].items[j].xmax,
             text |-> doc[i].items[j].text,
             modified |-> FALSE]]]]]

\* Any exception is swallowed and None is returned.
read_textgrid(path, outcome) ==
    IF outcome.ok THEN Attach(path, outcome.doc) ELSE NoTextgrid

\* What read_textgrid can return for the k-th path rglob yields; the path
\* of a file is its number.
LoadResults ==
    [k \in 1..MaxFiles |-> {read_textgrid(k, outcome) : outcome \in LoadOutcomes}]

(***************************************************************************)
(* utils.py: get_tier_names                                                *)
(***************************************************************************)
InList(x, list) == \E i \in 1..Len(list) : list[i] = x

RECURSIVE AddNames(_, _, _)
AddNames(acc, tiers, i) ==
    IF i > Len(tiers) THEN acc
    ELSE AddNames(IF InList(tiers[i].name, acc) THEN acc
                  ELSE Append(acc, tiers[i].name),
                  tiers, i + 1)

(***************************************************************************)
(* utils.py: create_aligned_tier_table                                     *)
(***************************************************************************)
InvalidRootAnd(dir) == ~dir.is_dir /\ ~dir.is_absolute

\* not source_dir.is_dir() or not source_dir.is_absolute()
InvalidRoot(dir) == ~dir.is_dir \/ ~dir.is_absolute

HeadersSecondaryFirst(primary, secondary) == <<"filename">> \o secondary \o <<primary>>

\* headers = ['filename', primary_tier_name] + secondary_tier_names
Headers(primary, secondary) == <<"filename", primary>> \o secondary

\* str.strip() of a label
IsWhitespace(c) == c = " "

RECURSIVE LStrip(_)
LStrip(t) == IF t # <<>> /\ IsWhitespace(Head(t)) THEN LStrip(Tail(t)) ELSE t

RECURSIVE RStrip(_)
RStrip(t) ==
    IF t # <<>> /\ IsWhitespace(t[Len(t)])
    THEN RStrip(SubSeq(t, 1, Len(t) - 1))
    ELSE t

Strip(t) == RStrip(LStrip(t))

SkipsPrimaryNoStrip(iv) == iv.text = <<>>

\* not primary_interval.text.strip()
SkipsPrimary(iv) == Strip(iv.text) = <<>>

IntervalTimesXminOnly(iv) == <<iv.xmin, iv.xmin + 1>>

\* interval_times = (interval.xmin, interval.xmax)
IntervalTimes(iv) == <<iv.xmin, iv.xmax>>

\* aligned_data, a dict: insertion-ordered [key, row] pairs.
HasKey(data, k) == \E i \in 1..Len(data) : data[i].key = k
KeyPos(data, k) == CHOOSE i \in 1..Len(data) : data[i].key = k

DictSetAppend(data, k, row) == Append(data, [key |-> k, row |-> row])

DictSetMoveToEnd(data, k, row) ==
    Append(SelectSeq(data, LAMBDA e : e.key # k), [key |-> k, row |-> row])

\* aligned_data[k] = row
DictSet(data, k, row) ==
    IF HasKey(data, k)
    THEN [data EXCEPT ![KeyPos(data, k)].row = row]
    ELSE Append(data, [key |-> k, row |-> row])

NoneSlot == [kind |-> "none"]
PathSlot(path) == [kind |-> "path", path |-> path]

\* row = [None]*len(headers); row[0] = path; row[1] = primary_interval
NewRow(hdrs, path, iv) ==
    [i \in 1..Len(hdrs) |->
        IF i = 1 THEN PathSlot(path) ELSE IF i = 2 THEN iv ELSE NoneSlot]

RECURSIVE PrimaryPassKeepExisting(_, _, _, _, _)
PrimaryPassKeepExisting(data, items, j, hdrs, path) ==
    IF j > Len(items) THEN data
    ELSE PrimaryPassKeepExisting(
            IF SkipsPrimary(items[j]) \/ HasKey(data, IntervalTimes(items[j])) THEN data
            ELSE DictSet(data, IntervalTimes(items[j]), NewRow(hdrs, path, items[j])),
            items, j + 1, hdrs, path)

\* for primary_interval in primary_tier: ...
RECURSIVE PrimaryPass(_, _, _, _, _)
PrimaryPass(data, items, j, hdrs, path) ==
    IF j > Len(items) THEN data
    ELSE PrimaryPass(
            IF SkipsPrimary(items[j]) THEN data
            ELSE DictSet(data, IntervalTimes(items[j]), NewRow(hdrs, path, items[j])),
            items, j + 1, hdrs, path)

\* headers.index(name): the first position of name, 0-based
HeadersIndex(hdrs, name) ==
    (CHOOSE i \in 1..Len(hdrs) : hdrs[i] = name /\ \A j \in 1..(i - 1) : hdrs[j] # name) - 1

\* for secondary_interval in tier: ...
RECURSIVE JoinTier(_, _, _, _)
JoinTier(data, tier, j, hdrs) ==
    IF j > Len(tier.items) THEN data
    ELSE LET iv == tier.items[j]
             k  == IntervalTimes(iv)
         IN  JoinTier(
                IF HasKey(data, k)
                THEN [data EXCEPT ![KeyPos(data, k)].row[HeadersIndex(hdrs, tier.name) + 1] = iv]
                ELSE data,
                tier, j + 1, hdrs)

\* for tier in tg: skip the primary tier and the tiers not selected
RECURSIVE SecondaryPass(_, _, _, _, _, _)
SecondaryPass(data, tiers, i, pidx, secondary, hdrs) ==
    IF i > Len(tiers) THEN data
    ELSE SecondaryPass(
            IF tiers[i].index = pidx \/ ~InList(tiers[i].name, secondary) THEN data
            ELSE JoinTier(data, tiers[i], 1, hdrs),
            tiers, i + 1, pidx, secondary, hdrs)

\* [tier for tier in tg if tier.name == primary_tier_name]
PrimaryTiers(tiers, primary) == SelectSeq(tiers, LAMBDA t : t.name = primary)

\* One run of the body of the outer `for tier in tg` loop.
TierLoopBody(data, doc, primary, secondary, hdrs) ==
    LET pts == PrimaryTiers(doc.tiers, primary)
    IN  IF pts = <<>> THEN data
        ELSE SecondaryPass(
                PrimaryPass(data, pts[1].items, 1, hdrs, doc.file_path),
                doc.tiers, 1, pts[1].index, secondary, hdrs)

\* The outer loop: its body runs once for every tier of the file.
RECURSIVE TierLoop(_, _, _, _, _, _)
TierLoop(data, doc, n, primary, secondary, hdrs) ==
    IF n = 0 THEN data
    ELSE TierLoop(TierLoopBody(data, doc, primary, secondary, hdrs),
                  doc, n - 1, primary, secondary, hdrs)

\* list(aligned_data.values())
DictValues(data) == [i \in 1..Len(data) |-> data[i].row]

\* History: the spans of the non-blank intervals of the first tier of `doc`
\* that carries the primary name.
NonBlank(text) == \E i \in 1..Len(text) : text[i] # " "
NonBlankPrimarySpans(doc, primary) ==
    LET idx == {i \in 1..Len(doc.tiers) : doc.tiers[i].name = primary}
    IN  IF idx = {} THEN {}
        ELSE LET first == CHOOSE i \in idx : \A j \in idx : i <= j
                 items == doc.tiers[first].items
             IN  {<<items[j].xmin, items[j].xmax>> :
                    j \in {m \in 1..Len(items) : NonBlank(items[m].text)}}


\* The 1-based position of the first tier of `doc` with the primary name (0: none).
FirstPrimaryIndex(doc, primary) ==
    LET idx == {i \in 1..Len(doc.tiers) : doc.tiers[i].name = primary}
    IN  IF idx = {} THEN 0 ELSE CHOOSE i \in idx : \A j \in idx : i <= j

HasBlankPrimary(doc, primary) ==
    LET first == FirstPrimaryIndex(doc, primary)
    IN  /\ first # 0
        /\ \E j \in 1..Len(doc.tiers[first].items) :
                ~NonBlank(doc.tiers[first].items[j].text)

\* History: the intervals of `doc` the secondary pass visits (those of the
\* selected tiers other than the primary tier, when the file has one) whose
\* span is one of `spans`.
Joinable(doc, primary, secondary, spans) ==
    LET first == FirstPrimaryIndex(doc, primary)
        all   == UNION {{doc.tiers[i].items[j] : j \in 1..Len(doc.tiers[i].items)} :
                          i \in {m \in 1..Len(doc.tiers) :
                                    m # first /\ InList(doc.tiers[m].name, secondary)}}
    IN  IF first = 0 THEN {}
        ELSE {s \in all : <<s.xmin, s.xmax>> \in spans}

\* History: the reference the loop over the tiers is compared with. It
\* takes the first tier that carries the primary name, and runs the
\* primary pass and the secondary pass once.
OncePerFile(data, doc, primary, secondary, hdrs) ==
    LET first == FirstPrimaryIndex(doc, primary)
    IN  IF first = 0 THEN data
        ELSE SecondaryPass(
                PrimaryPass(data, doc.tiers[first].items, 1, hdrs, doc.file_path),
                doc.tiers, 1, doc.tiers[first].index, secondary, hdrs)

DetectIdle ==
    /\ fbytes = <<>>
    /\ header = <<>>
    /\ encoding = "none"
    /\ dpc = "idle"

ScanInit ==
    /\ DetectIdle
    /\ GuiIdle
    /\ source_dir \in [is_dir : BOOLEAN, is_absolute : BOOLEAN]
    /\ \/ /\ fn = "get_tier_names"
          /\ primary_tier_name = ""
          /\ secondary_tier_names = <<>>
       \/ /\ fn = "create_aligned_tier_table"
          /\ primary_tier_name = "word"
          /\ secondary_tier_names \in Selections
    /\ nread = 0
    /\ tg_loaded = FALSE
    /\ aligned_data = <<>>
    /\ names = <<>>
    /\ result = [returned |-> FALSE]
    /\ apc = "call"
    /\ seen_keys = {}
    /\ skipped_blank = FALSE
    /\ joinable = {}
    /\ last_keys = {}
    /\ ref_data = <<>>
    /\ seen_names = {}

\* get_tier_names: one turn of `for path in source_dir.rglob(...)`.
\* read_textgrid never raises, so the except branch is never taken; a file
\* that failed to load gives tg = None and `for tier in tg` raises TypeError.
GetTierNamesNextPath ==
    /\ fn = "get_tier_names"
    /\ apc \in {"call", "scan"}
    /\ source_dir.is_dir
    /\ nread < MaxFiles
    /\ \E doc \in LoadResults[nread + 1] :
            /\ tg_loaded' = doc.loaded
            /\ nread' = nread + 1
            /\ IF doc.loaded
               THEN /\ names' = AddNames(names, doc.tiers, 1)
                    /\ seen_names' =
                            seen_names \cup {doc.tiers[i].name : i \in 1..Len(doc.tiers)}
                    /\ apc' = "scan"
               ELSE /\ names' = names
                    /\ seen_names' = seen_names
                    /\ apc' = "raised"
    /\ UNCHANGED <<dvars, gvars, fn, source_dir, primary_tier_name, secondary_tier_names,
                   aligned_data, result, seen_keys, skipped_blank, joinable,
                   last_keys, ref_data>>

\* get_tier_names: rglob is exhausted; return names
GetTierNamesReturn ==
    /\ fn = "get_tier_names"
    /\ apc \in {"call", "scan"}
    /\ result' = [returned |-> TRUE, names |-> names]
    /\ apc' = "done"
    /\ UNCHANGED <<dvars, gvars, fn, source_dir, primary_tier_name, secondary_tier_names,
                   nread, tg_loaded, aligned_data, names, seen_keys, skipped_blank, joinable,
                   last_keys, ref_data, seen_names>>

\* create_aligned_tier_table up to its loop: the test of source_dir, and the
\* initial aligned_data and headers.
CreateTableStart ==
    /\ fn = "create_aligned_tier_table"
    /\ apc = "call"
    /\ IF InvalidRoot(source_dir)
       THEN /\ result' = [returned |-> TRUE, headers |-> <<>>, table_rows |-> <<>>]
            /\ apc' = "done"
       ELSE /\ result' = result
            /\ apc' = "scan"
    /\ aligned_data' = <<>>
    /\ ref_data' = <<>>
    /\ UNCHANGED <<dvars, gvars, fn, source_dir, primary_tier_name, secondary_tier_names,
                   nread, tg_loaded, names, seen_keys, skipped_blank, joinable, last_keys,
                   seen_names>>

\* create_aligned_tier_table: one turn of `for path in source_dir.rglob(...)`.
CreateTableNextPath ==
    /\ fn = "create_aligned_tier_table"
    /\ apc = "scan"
    /\ nread < MaxFiles
    /\ \E doc \in LoadResults[nread + 1] :
        LET hdrs == Headers(primary_tier_name, secondary_tier_names)
        IN  /\ tg_loaded' = doc.loaded
            /\ nread' = nread + 1
            /\ IF doc.loaded
               THEN /\ aligned_data' = TierLoop(aligned_data, doc, Len(doc.tiers),
                                                primary_tier_name, secondary_tier_names, hdrs)
                    /\ seen_keys' = seen_keys \cup NonBlankPrimarySpans(doc, primary_tier_name)
                    /\ skipped_blank' = (skipped_blank \/ HasBlankPrimary(doc, primary_tier_name))
                    /\ joinable' =
                            Joinable(doc, primary_tier_name, secondary_tier_names,
                                seen_keys \cup NonBlankPrimarySpans(doc, primary_tier_name))
                    /\ last_keys' = NonBlankPrimarySpans(doc, primary_tier_name)
                    /\ ref_data' = OncePerFile(ref_data, doc, primary_tier_name,
                                               secondary_tier_names, hdrs)
                    /\ apc' = "scan"
               ELSE /\ aligned_data' = aligned_data
                    /\ seen_keys' = seen_keys
                    /\ skipped_blank' = skipped_blank
                    /\ joinable' = {}
                    /\ last_keys' = {}
                    /\ ref_data' = ref_data
                    /\ apc' = "raised"
    /\ UNCHANGED <<dvars, gvars, fn, source_dir, primary_tier_name, secondary_tier_names,
                   names, result, seen_names>>

\* create_aligned_tier_table: rglob is exhausted; return headers, table_rows
CreateTableReturn ==
    /\ fn = "create_aligned_tier_table"
    /\ apc = "scan"
    /\ result' = [returned |-> TRUE,
                  headers |-> Headers(primary_tier_name, secondary_tier_names),
                  table_rows |-> DictValues(aligned_data)]
    /\ apc' = "done"
    /\ UNCHANGED <<dvars, gvars, fn, source_dir, primary_tier_name, secondary_tier_names,
                   nread, tg_loaded, aligned_data, names, seen_keys, skipped_blank, joinable,
                   last_keys, ref_data, seen_names>>

ScanNext ==
    \/ GetTierNamesNextPath
    \/ GetTierNamesReturn
    \/ CreateTableStart
    \/ CreateTableNextPath
    \/ CreateTableReturn

SpecScan == ScanInit /\ [][ScanNext]_vars

(***************************************************************************)
(* explorer_window.py: EditorView and TGExplorer                           *)
(***************************************************************************)
MaxCells == 3            \* most interval cells in a table

\* The TextGrid files behind a table.
TextGrids == {1, 2}

\* textgrid.file_path
FilePath(textgrid) == <<"dir", textgrid>>

\* The tables on_load_data can build: each cell holds an interval of some
\* TextGrid, freshly read (modified = False).
Tables == SeqsUpTo({[textgrid |-> d, modified |-> FALSE] : d \in TextGrids}, MaxCells)

\* index.data(UserRole): the interval of the cell, None past the table
HasItem(tbl, index) == index \in 1..Len(tbl)

\* TGTableModel.setData(index, value, ForegroundRole): the modified flag
\* (the highlight) of the interval of the cell
SetModified(tbl, index, value) ==
    IF HasItem(tbl, index) THEN [tbl EXCEPT ![index].modified = value] ELSE tbl

\* item.textgrid(): the TextGrid that owns the interval of the cell
ItemTextgrid(tbl, index) == tbl[index].textgrid

AlreadyWrittenNever(path, tmp_paths) == FALSE

\* textgrid.file_path in tmp_paths
AlreadyWritten(path, tmp_paths) == path \in tmp_paths

\* The loop of on_save_changes over `order`, the order in which the set of
\* modified indexes is iterated, from position i on. `unwritable` are the
\* TextGrids whose write raises. The result is the state the loop ends
\* with: normally, or (raised) at the statement that raised.
RECURSIVE SaveLoop(_, _, _, _, _, _)
SaveLoop(order, i, tbl, tmp_paths, writes, unwritable) ==
    IF i > Len(order)
    THEN [table |-> tbl, writes |-> writes, raised |-> FALSE, failed |-> {}]
    ELSE LET index == order[i]
             tbl2  == SetModified(tbl, index, FALSE)
         IN  IF ~HasItem(tbl2, index)
             THEN \* item is None: item.textgrid() raises AttributeError
                  [table |-> tbl2, writes |-> writes, raised |-> TRUE, failed |-> {}]
             ELSE LET textgrid == ItemTextgrid(tbl2, index)
                  IN  IF AlreadyWritten(FilePath(textgrid), tmp_paths)
                      THEN SaveLoop(order, i + 1, tbl2, tmp_paths, writes, unwritable)
                      ELSE IF textgrid \in unwritable
                      THEN \* textgrid.write raises
                           [table |-> tbl2, writes |-> writes, raised |-> TRUE,
                            failed |-> {textgrid}]
                      ELSE SaveLoop(order, i + 1, tbl2,
                                    tmp_paths \cup {FilePath(textgrid)},
                                    Append(writes, [textgrid |-> textgrid,
                                                    path |-> FilePath(textgrid)]),
                                    unwritable)

\* The orders in which a set can be iterated.
Orders(set) ==
    {order \in [1..Cardinality(set) -> set] :
        \A i, j \in 1..Cardinality(set) : i # j => order[i] # order[j]}

\* The cells of a table whose interval is flagged as modified.
Flagged(tbl) == {index \in 1..Len(tbl) : tbl[index].modified}

\* The TextGrids that own the interval of some cell of `indexes`.
Owners(tbl, indexes) ==
    {ItemTextgrid(tbl, index) : index \in {k \in indexes : HasItem(tbl, k)}}

\* History: what a run of on_save_changes started from and ended with.
PassRecord(end) ==
    [ran |-> TRUE,
     before |-> modified_indexes,
     flagged_before |-> Flagged(table),
     owners |-> Owners(table, modified_indexes),
     writes |-> end.writes,
     failed |-> end.failed,
     raised |-> end.raised]

\* on_load_data: the new project dialog was accepted. The table is replaced
\* by the one create_aligned_tier_table returns; the buttons are enabled
\* and Save Changes is disabled. The set of modified indexes is not touched.
OnLoadData ==
    /\ \E tbl \in Tables : table' = tbl
    /\ buttons_enabled' = TRUE
    /\ save_enabled' = FALSE
    /\ last_op' = "on_load_data"
    /\ last_pass' = NoPass
    /\ UNCHANGED <<dvars, avars, modified_indexes>>

\* The user edits a cell: TGTableModel.setData marks the interval modified
\* and emits dataChanged; EditorView.on_changed_indexes adds the index and
\* emits save_changes(True), which enables Save Changes.
OnEditCell ==
    /\ \E index \in 1..Len(table) :
          /\ table' = SetModified(table, index, TRUE)
          /\ modified_indexes' = modified_indexes \cup {index}
    /\ save_enabled' = TRUE
    /\ last_op' = "edit"
    /\ last_pass' = NoPass
    /\ UNCHANGED <<dvars, avars, buttons_enabled>>

\* on_save_changes, triggered by the Save Changes action. When a statement
\* of the loop raises, the handler ends there: clear_modified_indexes is
\* not reached.
OnSaveChanges ==
    /\ save_enabled
    /\ \E order \in Orders(modified_indexes) :
       \E unwritable \in SUBSET Owners(table, modified_indexes) :
          LET end == SaveLoop(order, 1, table, {}, <<>>, unwritable)
          IN  /\ table' = end.table
              /\ last_pass' = PassRecord(end)
              /\ IF end.raised
                 THEN UNCHANGED <<modified_indexes, save_enabled>>
                 ELSE /\ modified_indexes' = {}
                      /\ save_enabled' = FALSE
    /\ last_op' = "on_save_changes"
    /\ UNCHANGED <<dvars, avars, buttons_enabled>>

\* The end of on_close_project: set_table_data([], []),
\* on_enabled_buttons(False), clear_modified_indexes().
CloseTail ==
    /\ table' = <<>>
    /\ buttons_enabled' = FALSE
    /\ modified_indexes' = {}
    /\ save_enabled' = FALSE
    /\ last_op' = "on_close_project"

\* on_close_project, triggered by the Close project action, when nothing
\* is modified or the user answers No to the question.
OnCloseProjectNoSave ==
    /\ buttons_enabled
    /\ last_pass' = NoPass
    /\ CloseTail
    /\ UNCHANGED <<dvars, avars>>

\* on_close_project when there are modified indexes and the user answers
\* Yes: on_save_changes runs first, and its exception ends this handler too.
OnCloseProjectSave ==
    /\ buttons_enabled
    /\ modified_indexes # {}
    /\ \E order \in Orders(modified_indexes) :
       \E unwritable \in SUBSET Owners(table, modified_indexes) :
          LET end == SaveLoop(order, 1, table, {}, <<>>, unwritable)
          IN  /\ last_pass' = PassRecord(end)
              /\ IF end.raised
                 THEN /\ table' = end.table
                      /\ last_op' = "on_close_project raised"
                      /\ UNCHANGED <<modified_indexes, save_enabled, buttons_enabled>>
                 ELSE CloseTail
    /\ UNCHANGED <<dvars, avars>>

GuiInit ==
    /\ DetectIdle
    /\ AlignIdle
    /\ GuiIdle

GuiNext ==
    \/ OnLoadData
    \/ OnEditCell
    \/ OnSaveChanges
    \/ OnCloseProjectNoSave
    \/ OnCloseProjectSave

SpecGui == GuiInit /\ [][GuiNext]_vars

(***************************************************************************)
(* Claims on the encoding detector                                         *)
(***************************************************************************)
HasBomLE(b) == Len(b) >= 2 /\ b[1] = 255 /\ b[2] = 254
HasBomBE(b) == Len(b) >= 2 /\ b[1] = 254 /\ b[2] = 255
EncodingTags == {"utf-16le", "utf-16be", "utf-8", "latin_1"}

\* C6: for a file without a byte order mark, the detector returns utf-8
\* exactly when the whole content of the file (its first line included) is
\* valid UTF-8, and latin_1 exactly when it is not.
C6_NoBomUtf8IffWholeFileValid ==
    (dpc = "done" /\ ~HasBomLE(fbytes) /\ ~HasBomBE(fbytes)) =>
        /\ is_valid_utf8(fbytes) => encoding = "utf-8"
        /\ ~is_valid_utf8(fbytes) => encoding = "latin_1"

\* C7: a file that begins with FF FE is utf-16le and one that begins with
\* FE FF is utf-16be, whatever follows, and the tag returned is always one of
\* the four, never the empty one.
C7_BomDecides ==
    dpc = "done" =>
        /\ HasBomLE(fbytes) => encoding = "utf-16le"
        /\ HasBomBE(fbytes) => encoding = "utf-16be"
        /\ encoding \in EncodingTags
        /\ encoding # ""

\* A file with a byte order mark followed by bytes that are not UTF-8 has
\* been classified.
C7_Witness ==
    /\ dpc = "done"
    /\ HasBomLE(fbytes)
    /\ Len(fbytes) > 2
    /\ ~is_valid_utf8(SubSeq(fbytes, 3, Len(fbytes)))
    /\ encoding = "utf-16le"

(***************************************************************************)
(* Claims on the directory scans                                           *)
(***************************************************************************)
IsInterval(slot) == slot.kind = "interval"
SpanOf(slot) == <<slot.xmin, slot.xmax>>
RootIsValid == source_dir.is_dir /\ source_dir.is_absolute
Aligning == fn = "create_aligned_tier_table" /\ apc \in {"scan", "done"} /\ RootIsValid

\* C1: a file that fails to load is skipped by both scans: the scan goes on
\* (it does not fail as a whole) and what it has accumulated from the other
\* files is left as it was.
C1_FailingFileIsSkipped ==
    [][(nread' = nread + 1 /\ ~tg_loaded') =>
            /\ apc' = "scan"
            /\ aligned_data' = aligned_data
            /\ names' = names]_vars

\* The column of a tier name in a row (1-based): its first place in headers.
ColumnOf(name) ==
    CHOOSE c \in 1..(Len(secondary_tier_names) + 2) :
        /\ Headers(primary_tier_name, secondary_tier_names)[c] = name
        /\ \A d \in 1..(c - 1) : Headers(primary_tier_name, secondary_tier_names)[d] # name

\* The interval the secondary pass leaves in the column of s: the one of
\* equal span in the last tier of the file that has the name of s's tier.
LastWriter(s) ==
    CHOOSE w \in joinable :
        /\ w.tier.name = s.tier.name
        /\ SpanOf(w) = SpanOf(s)
        /\ \A v \in joinable :
              (v.tier.name = s.tier.name /\ SpanOf(v) = SpanOf(s))
                  => v.tier.index <= w.tier.index

C4_RowsAreNonBlankPrimarySpans ==
    /\ Aligning =>
          /\ {aligned_data[i].key : i \in 1..Len(aligned_data)} = seen_keys
          /\ Len(aligned_data) = Cardinality(seen_keys)
    /\ (fn = "create_aligned_tier_table" /\ result.returned /\ RootIsValid) =>
          Len(result.table_rows) = Cardinality(seen_keys)

\* A table of two rows has been returned after a blank primary interval
\* was read.
C4_Witness ==
    /\ fn = "create_aligned_tier_table"
    /\ result.returned
    /\ skipped_blank
    /\ Len(result.table_rows) = 2

\* C5: with a root that is relative or is no directory the call returns
\* empty headers and no rows, whatever tiers are selected, and reads no file.
C5_InvalidRootIsNoOp ==
    (/\ fn = "create_aligned_tier_table"
     /\ apc # "call"
     /\ ~(source_dir.is_dir /\ source_dir.is_absolute)) =>
        /\ apc = "done"
        /\ result = [returned |-> TRUE, headers |-> <<>>, table_rows |-> <<>>]
        /\ nread = 0

\* The call has returned for a directory given by a relative path, with
\* secondary tiers selected.
C5_Witness ==
    /\ fn = "create_aligned_tier_table"
    /\ apc = "done"
    /\ source_dir.is_dir
    /\ ~source_dir.is_absolute
    /\ secondary_tier_names = <<"phone", "gloss">>
    /\ result.headers = <<>>

(***************************************************************************)
(* Claims on saving and on the set of modified indexes                     *)
(***************************************************************************)
\* The cells of the last save pass that belong to the TextGrids of `docs`.
CellsOf(docs) ==
    {index \in last_pass.before :
        index <= Len(table) /\ table[index].textgrid \in docs}

\* C2: after a save pass in which a write failed and another succeeded, the
\* set of modified indexes holds exactly the cells of the TextGrids whose
\* write failed.
C2_SaveFailurePartitionedPerDocument ==
    (last_pass.ran /\ last_pass.failed # {} /\ last_pass.writes # <<>>) =>
        modified_indexes = CellsOf(last_pass.failed)

\* C8: a save pass writes no TextGrid twice, writes each to its own
\* file_path, and writes only TextGrids that own a modified cell (all of
\* them when nothing raises).
C8_EachDocumentWrittenOnceToItsOwnPath ==
    last_pass.ran =>
        LET w == last_pass.writes
        IN  /\ \A i, j \in 1..Len(w) :
                  i # j => (w[i].textgrid # w[j].textgrid /\ w[i].path # w[j].path)
            /\ \A i \in 1..Len(w) :
                  /\ w[i].path = <<"dir", w[i].textgrid>>
                  /\ w[i].textgrid \in last_pass.owners
            /\ ~last_pass.raised =>
                  {w[i].textgrid : i \in 1..Len(w)} = last_pass.owners

\* A pass over three modified cells of two TextGrids has written both.
C8_Witness ==
    /\ last_pass.ran
    /\ ~last_pass.raised
    /\ Cardinality(last_pass.before) = 3
    /\ Len(last_pass.writes) = 2

\* C9: in a save pass in which a write fails nothing is cleared: every
\* interval flagged as modified before the pass is still flagged, and the
\* set of modified indexes is as it was, not empty.
C9_NothingClearedWhenAWriteFails ==
    (last_pass.ran /\ last_pass.failed # {}) =>
        /\ Flagged(table) = last_pass.flagged_before
        /\ modified_indexes = last_pass.before
        /\ modified_indexes # {}

\* C10: when on_load_data or on_close_project has completed, the set of
\* modified indexes is empty.
C10_LoadAndCloseEmptyTheModifiedSet ==
    last_op \in {"on_load_data", "on_close_project"} => modified_indexes = {}

(***************************************************************************)
(* Claims on the order and the shape of the table                          *)
(***************************************************************************)
\* C11: the rows are in the order in which their keys were first inserted.
\* No step of the scan moves or removes a row that exists, whether or not
\* it overwrites it; the rows a file adds come after all earlier ones, in
\* the order of its primary intervals; and the rows returned are in the
\* order of the dict.
C11_RowOrderIsFirstInsertion ==
    [][fn = "create_aligned_tier_table" /\ apc = "scan" =>
        /\ Len(aligned_data) <= Len(aligned_data')
        /\ \A i \in 1..Len(aligned_data) : aligned_data'[i].key = aligned_data[i].key
        /\ \A i, j \in (Len(aligned_data) + 1)..Len(aligned_data') :
              i < j => aligned_data'[i].key[2] <= aligned_data'[j].key[1]
        /\ result'.returned =>
              /\ Len(result'.table_rows) = Len(aligned_data)
              /\ \A i \in 1..Len(aligned_data) :
                    result'.table_rows[i] = aligned_data[i].row]_vars

\* A table has been returned whose first row is later in time than its
\* second, and whose first row was overwritten by the second file.
C11_Witness ==
    /\ fn = "create_aligned_tier_table"
    /\ result.returned
    /\ nread = 2
    /\ Len(aligned_data) = 2
    /\ aligned_data[1].key = <<1, 2>>
    /\ aligned_data[2].key = <<0, 1>>
    /\ aligned_data[1].row[1] = PathSlot(2)
    /\ result.table_rows[1][1] = PathSlot(2)
\* C12: for a valid root the headers returned are "filename", the primary
\* tier name, then the secondary tier names in the order of the selection,
\* whatever the files hold.
C12_HeadersFollowSelection ==
    (fn = "create_aligned_tier_table" /\ result.returned /\ RootIsValid) =>
        /\ Len(result.headers) = Len(secondary_tier_names) + 2
        /\ result.headers[1] = "filename"
        /\ result.headers[2] = primary_tier_name
        /\ \A i \in 1..Len(secondary_tier_names) :
              result.headers[i + 2] = secondary_tier_names[i]

\* The headers of the selection (phone, gloss) have been returned after a
\* file was read whose primary tier is not its first tier.
C12_Witness ==
    /\ fn = "create_aligned_tier_table"
    /\ result.returned
    /\ result.headers = <<"filename", "word", "phone", "gloss">>
    /\ \E i \in 1..Len(aligned_data) : aligned_data[i].row[2].tier.index > 0
(***************************************************************************)
(* Claims on get_tier_names                                                *)
(***************************************************************************)
NoDuplicates(list) == \A i, j \in 1..Len(list) : i # j => list[i] # list[j]

\* C13: a call of get_tier_names ends by returning a list that holds each
\* tier name of the files that loaded, once.
C13_ReturnsNamesOfLoadableFiles ==
    (fn = "get_tier_names" /\ apc \in {"done", "raised"}) =>
        /\ result.returned
        /\ NoDuplicates(result.names)
        /\ {result.names[i] : i \in 1..Len(result.names)} = seen_names

\* C13, for the calls that return: the list returned holds each tier name
\* of the files read once, and the list only grows at its end while the
\* files are read, so the names are in the order in which they were first
\* seen.
C13_FirstSeenOrderWhenReturned ==
    [][fn = "get_tier_names" =>
        /\ Len(names) <= Len(names')
        /\ \A i \in 1..Len(names) : names'[i] = names[i]
        /\ result'.returned =>
              /\ result'.names = names
              /\ NoDuplicates(names)
              /\ {names[i] : i \in 1..Len(names)} = seen_names]_vars
(***************************************************************************)
(* Claims on rows that several files write                                 *)
(***************************************************************************)
\* C14: when a file is read that has a non-blank primary interval with the
\* key of a row an earlier file made, there is still one row for that key,
\* at its place; its path and its primary slot are those of the file just
\* read, and each secondary slot is None or holds a secondary interval of
\* the file just read: nothing joined from the earlier file is left.
C14_LaterFileOverwritesRow ==
    [][(fn = "create_aligned_tier_table" /\ nread' = nread + 1 /\ tg_loaded') =>
        \A i \in 1..Len(aligned_data) :
            (/\ aligned_data[i].key \in last_keys'
             /\ aligned_data[i].row[1] # PathSlot(nread')) =>
                /\ i <= Len(aligned_data')
                /\ aligned_data'[i].key = aligned_data[i].key
                /\ \A j \in 1..Len(aligned_data') :
                      aligned_data'[j].key = aligned_data[i].key => j = i
                /\ aligned_data'[i].row[1] = PathSlot(nread')
                /\ IsInterval(aligned_data'[i].row[2])
                /\ aligned_data'[i].row[2].file_path = nread'
                /\ SpanOf(aligned_data'[i].row[2]) = aligned_data[i].key
                /\ \A c \in 3..Len(aligned_data'[i].row) :
                      \/ aligned_data'[i].row[c] = NoneSlot
                      \/ aligned_data'[i].row[c] \in joinable']_vars

\* The second file has overwritten the row the first file made (the first
\* row is later in time than the second, so two files made them), and its
\* secondary slot is None again.
C14_Witness ==
    /\ fn = "create_aligned_tier_table"
    /\ nread = 2
    /\ secondary_tier_names = <<"phone">>
    /\ Len(aligned_data) = 2
    /\ aligned_data[1].key[1] >= aligned_data[2].key[2]
    /\ aligned_data[1].key \in last_keys
    /\ aligned_data[1].row[1] = PathSlot(2)
    /\ aligned_data[1].row[3] = NoneSlot
\* C15: the loop that runs the primary pass and the secondary pass once
\* for every tier of a file builds the dict that one run per file builds,
\* with the first tier of the primary name: the same keys, rows and order,
\* at every point of the scan and in the table returned.
C15_TierLoopIsOnePassPerFile ==
    fn = "create_aligned_tier_table" =>
        /\ aligned_data = ref_data
        /\ result.returned => result.table_rows = DictValues(ref_data)

\* A file with two tiers of the primary name and a selected secondary tier
\* has been read after another file, and the table has been returned: the
\* second row holds an interval of a second tier named as the primary one.
C15_Witness ==
    /\ fn = "create_aligned_tier_table"
    /\ result.returned
    /\ nread = 2
    /\ secondary_tier_names = <<"word", "phone">>
    /\ Len(aligned_data) = 2
    /\ aligned_data[2].row[1] = PathSlot(2)
    /\ aligned_data[2].row[2].tier.index = 1
    /\ aligned_data[2].row[2].tier.name = "word"
\* C16: every row returned has as many slots as there are headers; its
\* first slot is the path of a file, and its second slot is a non-blank
\* interval of that file, of a tier with the primary name, whose span is
\* the key of the row.
C16_RowShape ==
    (fn = "create_aligned_tier_table" /\ result.returned /\ RootIsValid) =>
        /\ Len(result.table_rows) = Len(aligned_data)
        /\ \A i \in 1..Len(result.table_rows) :
              LET row == result.table_rows[i]
              IN  /\ Len(row) = Len(result.headers)
                  /\ row[1].kind = "path"
                  /\ row[1].path \in 1..nread
                  /\ IsInterval(row[2])
                  /\ row[2].file_path = row[1].path
                  /\ row[2].tier.name = primary_tier_name
                  /\ Strip(row[2].text) # <<>>
                  /\ SpanOf(row[2]) = aligned_data[i].key
\* C17: in every row returned, each interval in a secondary slot is of the
\* file whose path is in the first slot of the row.
C17_RowProvenance ==
    (fn = "create_aligned_tier_table" /\ result.returned) =>
        \A i \in 1..Len(result.table_rows) :
            \A c \in 3..Len(result.table_rows[i]) :
                IsInterval(result.table_rows[i][c]) =>
                    /\ result.table_rows[i][1].kind = "path"
                    /\ result.table_rows[i][c].file_path = result.table_rows[i][1].path
(***************************************************************************)
(* Claims on the Save Changes action                                       *)
(***************************************************************************)
\* C18: after any sequence of edits, saves, loads and closes the Save
\* Changes action is enabled exactly when the set of modified indexes is
\* not empty.
C18_SaveEnabledIffModified ==
    save_enabled <=> modified_indexes # {}

====
